---- MODULE Spec2Model ----
(***************************************************************************)
(* Model of src/utils/contractUtils.ts: validateNFTContract,               *)
(* getNFTContractInfo and detectMintFunction.                              *)
(*                                                                         *)
(* One invocation of one of the three functions is modelled.  A remote     *)
(* call (provider.getCode, a contract method) returns a promise that is    *)
(* pending until the environment fulfils or rejects it; the contract       *)
(* binding (new ethers.Contract) is synchronous and either succeeds or     *)
(* throws.  The code between two awaits runs as one step: a settlement     *)
(* and the continuation of the async function it resumes are one action.   *)
(***************************************************************************)
EXTENDS Integers, Sequences, FiniteSets, TLC

VARIABLES fn, contractAddress, exposed, pc, bound, issued, status, timer,
          race, isERC721, isERC1155, hasBalanceOf, hasOwnerOf, idx,
          result, escaped, unhandled

vars == <<fn, contractAddress, exposed, pc, bound, issued, status, timer,
          race, isERC721, isERC1155, hasBalanceOf, hasOwnerOf, idx,
          result, escaped, unhandled>>

(* ---------------------------- bounds ---------------------------------- *)

\* number of distinct values a metadata call may fulfil with
MaxValue == 2

(* ---------------------------- inputs ---------------------------------- *)

Functions == {"validate", "info", "detect"}

\* An address string, by the features ethers.isAddress looks at: the number
\* of characters of its body, whether they are all hex digits, and whether
\* its mixed-case checksum (if any) is right.
Addresses == [body : {0, 39, 40, 41}, hex : BOOLEAN, checksumOk : BOOLEAN]

\* ethers.isAddress: 40 hex digits with a consistent checksum
isAddress(a) == a.body = 40 /\ a.hex /\ a.checksumOk

\* Bytecode strings as token sequences after the "0x" prefix; '0x' is <<>>.
Bytecodes == { <<>>, <<"6080">>, <<"6080", "Transfer(">>, <<"5RANSFERE", "6080">> }

\* String.prototype.includes on the token sequence
Includes(bytecode, fragment) == \E k \in 1..Len(bytecode) : bytecode[k] = fragment

Values == 1..MaxValue

Absent == 0

(* ------------------------ remote calls -------------------------------- *)

ValidateCalls == <<"getCode", "supportsInterface721", "supportsInterface1155",
                   "balanceOf", "ownerOf", "getCodeScan">>

InfoCalls == <<"name", "symbol", "totalSupply">>

CallNames == {ValidateCalls[k] : k \in 1..Len(ValidateCalls)}
               \cup {InfoCalls[k] : k \in 1..Len(InfoCalls)}

Idle == [st |-> "idle"]
Pending == [st |-> "pending"]
Fulfilled(v) == [st |-> "fulfilled", val |-> v]
Rejected == [st |-> "rejected"]

Settled(s) == s.st \in {"fulfilled", "rejected"}

\* Every promise the code creates gets a rejection handler: the race
\* participants from Promise.race, the probes and fallback calls from
\* .catch, the scan fetch from the await inside try, the metadata calls
\* from Promise.allSettled.
Handled(c) == c \in CallNames \cup {"timeout"}

(* --------------------------- results ---------------------------------- *)

NoResult == [kind |-> "none"]

NoReason == "none"

ValidationResult(v, r) == [kind |-> "validation", valid |-> v, reason |-> r]

BadFormat == ValidationResult(FALSE, "Invalid Ethereum address format")
NotDeployed == ValidationResult(FALSE, "Contract not deployed at this address")
NetworkFailure == ValidationResult(FALSE, "Failed to verify contract deployment - network issues")
ValidPlain == ValidationResult(TRUE, NoReason)
ValidTransfer == ValidationResult(TRUE, "Contract appears to implement transfer events")
NotNFT == ValidationResult(FALSE, "Contract does not appear to be an ERC721 or ERC1155 NFT")
ValidationError == ValidationResult(FALSE, "Validation error")

ContractInfo(n, s, t) == [kind |-> "info", name |-> n, symbol |-> s, totalSupply |-> t]

EmptyInfo == ContractInfo(Absent, Absent, Absent)

Signature(f) == [kind |-> "signature", func |-> f]

Null == [kind |-> "null"]

\* how a function invocation completes: a returned value, or an exception
\* that propagates to the caller
Returns(r) == [escaped |-> FALSE, result |-> r]
Throws == [escaped |-> TRUE, result |-> NoResult]

(* ----------------------- validateNFTContract -------------------------- *)

\* line 11: the guard of the early return
AddressRejectedEmptyOnly(a) == a.body = 0
AddressRejected(a) == a.body = 0 \/ ~isAddress(a)

\* line 24: code === '0x'
IsEmptyCodeNever(code) == FALSE
IsEmptyCode(code) == code = <<>>

\* Promise.race: the first participant to settle decides, later
\* settlements are ignored
RaceSettleLastWins(r, who) == who
RaceSettle(r, who) == IF r = "pending" THEN who ELSE r

\* lines 27-30: catch (codeError)
CodeCatch == Returns(NetworkFailure)

\* lines 83-86: catch (error) around steps 3-5
ProbeCatchRethrow == Returns(ValidationError)
ProbeCatch == Returns(ValidPlain)

\* lines 87-93: the outer catch
OuterCatchMissing == Throws
OuterCatch == Returns(ValidationError)

\* line 56: isERC721 || isERC1155
ProbeConclusiveBoth(a, b) == a /\ b
ProbeConclusiveNever(a, b) == FALSE
ProbeConclusive(a, b) == a \/ b

\* line 69: hasBalanceOf || hasOwnerOf
FallbackConclusiveBoth(a, b) == a /\ b
FallbackConclusive(a, b) == a \/ b

\* lines 75-82: the bytecode scan
ScanResult(bytecode) ==
  IF Includes(bytecode, "Transfer(") \/ Includes(bytecode, "5RANSFERE")
  THEN ValidTransfer
  ELSE NotNFT

Complete(c) ==
  /\ result' = c.result
  /\ escaped' = c.escaped
  /\ pc' = "done"

Issue(st, c) == [st EXCEPT ![c] = Pending]

validateLocals == <<isERC721, isERC1155, hasBalanceOf, hasOwnerOf>>

\* lines 10-22: format check, then the bytecode fetch raced with the timer
ValidateStart ==
  /\ fn = "validate" /\ pc = "start"
  /\ IF AddressRejected(contractAddress)
     THEN /\ Complete(Returns(BadFormat))
          /\ UNCHANGED <<issued, status, timer, race>>
     ELSE /\ status' = Issue(status, "getCode")
          /\ issued' = Append(issued, "getCode")
          /\ timer' = "armed"
          /\ race' = "pending"
          /\ pc' = "awaitRace"
          /\ UNCHANGED <<result, escaped>>
  /\ UNCHANGED <<fn, contractAddress, exposed, bound, validateLocals, idx, unhandled>>

\* lines 17-49: provider.getCode fulfils.  If the race is still open the
\* function resumes: empty code returns, otherwise the contract is bound
\* (which may throw into the outer catch) and the ERC721 probe is issued.
GetCodeFulfil ==
  /\ fn = "validate" /\ status["getCode"].st = "pending"
  /\ \E code \in Bytecodes, b \in {"ok", "threw"} :
       /\ race' = RaceSettle(race, "fetch")
       /\ IF race' = race
          THEN /\ status' = [status EXCEPT !["getCode"] = Fulfilled(code)]
               /\ UNCHANGED <<pc, bound, issued, result, escaped>>
          ELSE IF IsEmptyCode(code)
          THEN /\ status' = [status EXCEPT !["getCode"] = Fulfilled(code)]
               /\ Complete(Returns(NotDeployed))
               /\ UNCHANGED <<bound, issued>>
          ELSE IF b = "threw"
          THEN /\ status' = [status EXCEPT !["getCode"] = Fulfilled(code)]
               /\ bound' = "threw"
               /\ Complete(OuterCatch)
               /\ UNCHANGED issued
          ELSE /\ status' = Issue([status EXCEPT !["getCode"] = Fulfilled(code)],
                                  "supportsInterface721")
               /\ issued' = Append(issued, "supportsInterface721")
               /\ bound' = "ok"
               /\ pc' = "await721"
               /\ UNCHANGED <<result, escaped>>
  /\ UNCHANGED <<fn, contractAddress, exposed, timer, validateLocals, idx, unhandled>>

\* lines 17-30: provider.getCode rejects
GetCodeReject ==
  /\ fn = "validate" /\ status["getCode"].st = "pending"
  /\ status' = [status EXCEPT !["getCode"] = Rejected]
  /\ unhandled' = (unhandled \/ ~Handled("getCode"))
  /\ race' = RaceSettle(race, "fetchError")
  /\ IF race' = race
     THEN UNCHANGED <<pc, result, escaped>>
     ELSE Complete(CodeCatch)
  /\ UNCHANGED <<fn, contractAddress, exposed, bound, issued, timer, validateLocals, idx>>

\* lines 19-21, 27-30: the 10 second timer fires and rejects its promise
TimerFire ==
  /\ fn = "validate" /\ timer = "armed"
  /\ timer' = "fired"
  /\ unhandled' = (unhandled \/ ~Handled("timeout"))
  /\ race' = RaceSettle(race, "timeout")
  /\ IF race' = race
     THEN UNCHANGED <<pc, result, escaped>>
     ELSE Complete(CodeCatch)
  /\ UNCHANGED <<fn, contractAddress, exposed, bound, issued, status, validateLocals, idx>>

\* lines 49-53: the ERC721 probe settles (a rejection is mapped to false),
\* then the ERC1155 probe is issued
Probe721Settle ==
  /\ fn = "validate" /\ pc = "await721"
  /\ \E s \in {Fulfilled(TRUE), Fulfilled(FALSE), Rejected} :
       /\ isERC721' = IF s.st = "fulfilled" THEN s.val ELSE FALSE
       /\ status' = Issue([status EXCEPT !["supportsInterface721"] = s],
                          "supportsInterface1155")
       /\ unhandled' = (unhandled \/ (s.st = "rejected" /\ ~Handled("supportsInterface721")))
  /\ issued' = Append(issued, "supportsInterface1155")
  /\ pc' = "await1155"
  /\ UNCHANGED <<fn, contractAddress, exposed, bound, timer, race, isERC1155,
                 hasBalanceOf, hasOwnerOf, idx, result, escaped>>

\* lines 53-61: the ERC1155 probe settles; either probe true returns valid,
\* otherwise balanceOf is issued
Probe1155Settle ==
  /\ fn = "validate" /\ pc = "await1155"
  /\ \E s \in {Fulfilled(TRUE), Fulfilled(FALSE), Rejected} :
       /\ isERC1155' = IF s.st = "fulfilled" THEN s.val ELSE FALSE
       /\ unhandled' = (unhandled \/ (s.st = "rejected" /\ ~Handled("supportsInterface1155")))
       /\ IF ProbeConclusive(isERC721, isERC1155')
          THEN /\ status' = [status EXCEPT !["supportsInterface1155"] = s]
               /\ Complete(Returns(ValidPlain))
               /\ UNCHANGED issued
          ELSE /\ status' = Issue([status EXCEPT !["supportsInterface1155"] = s],
                                  "balanceOf")
               /\ issued' = Append(issued, "balanceOf")
               /\ pc' = "awaitBalanceOf"
               /\ UNCHANGED <<result, escaped>>
  /\ UNCHANGED <<fn, contractAddress, exposed, bound, timer, race, isERC721,
                 hasBalanceOf, hasOwnerOf, idx>>

\* lines 61-65: balanceOf settles (any fulfilment is true, a rejection is
\* false), then ownerOf is issued
BalanceOfSettle ==
  /\ fn = "validate" /\ pc = "awaitBalanceOf"
  /\ \E s \in {Fulfilled(v) : v \in {0} \cup Values} \cup {Rejected} :
       /\ hasBalanceOf' = (s.st = "fulfilled")
       /\ status' = Issue([status EXCEPT !["balanceOf"] = s], "ownerOf")
       /\ unhandled' = (unhandled \/ (s.st = "rejected" /\ ~Handled("balanceOf")))
  /\ issued' = Append(issued, "ownerOf")
  /\ pc' = "awaitOwnerOf"
  /\ UNCHANGED <<fn, contractAddress, exposed, bound, timer, race, isERC721,
                 isERC1155, hasOwnerOf, idx, result, escaped>>

\* lines 65-74: ownerOf settles; either fallback call fulfilled returns
\* valid, otherwise the bytecode is fetched again for the scan
OwnerOfSettle ==
  /\ fn = "validate" /\ pc = "awaitOwnerOf"
  /\ \E s \in {Fulfilled(v) : v \in {0} \cup Values} \cup {Rejected} :
       /\ hasOwnerOf' = (s.st = "fulfilled")
       /\ unhandled' = (unhandled \/ (s.st = "rejected" /\ ~Handled("ownerOf")))
       /\ IF FallbackConclusive(hasBalanceOf, hasOwnerOf')
          THEN /\ status' = [status EXCEPT !["ownerOf"] = s]
               /\ Complete(Returns(ValidPlain))
               /\ UNCHANGED issued
          ELSE /\ status' = Issue([status EXCEPT !["ownerOf"] = s], "getCodeScan")
               /\ issued' = Append(issued, "getCodeScan")
               /\ pc' = "awaitScan"
               /\ UNCHANGED <<result, escaped>>
  /\ UNCHANGED <<fn, contractAddress, exposed, bound, timer, race, isERC721,
                 isERC1155, hasBalanceOf, idx>>

\* lines 74-86: the second bytecode fetch settles; a rejection is thrown
\* at the await and caught by the catch around steps 3-5
ScanSettle ==
  /\ fn = "validate" /\ pc = "awaitScan"
  /\ \E s \in {Fulfilled(c) : c \in Bytecodes} \cup {Rejected} :
       /\ status' = [status EXCEPT !["getCodeScan"] = s]
       /\ unhandled' = (unhandled \/ (s.st = "rejected" /\ ~Handled("getCodeScan")))
       /\ IF s.st = "fulfilled"
          THEN Complete(Returns(ScanResult(s.val)))
          ELSE Complete(ProbeCatch)
  /\ UNCHANGED <<fn, contractAddress, exposed, bound, issued, timer, race,
                 validateLocals, idx>>

(* ------------------------ getNFTContractInfo -------------------------- *)

\* lines 127-130: catch (error)
InfoCatch == Returns(EmptyInfo)

\* lines 122-124: a fulfilled outcome gives its value, a rejected one undefined
Field(s) == IF s.st = "fulfilled" THEN s.val ELSE Absent

\* lines 115-126: Promise.allSettled and the extraction of the three fields
InfoResultFailFast(st) ==
  IF \E k \in 1..Len(InfoCalls) : st[InfoCalls[k]].st = "rejected"
  THEN EmptyInfo
  ELSE ContractInfo(Field(st["name"]), Field(st["symbol"]), Field(st["totalSupply"]))
InfoResult(st) ==
  ContractInfo(Field(st["name"]), Field(st["symbol"]), Field(st["totalSupply"]))

\* lines 103-119: bind the contract, then issue the three calls and wait
InfoStart ==
  /\ fn = "info" /\ pc = "start"
  /\ \E b \in {"ok", "threw"} :
       /\ bound' = b
       /\ IF b = "threw"
          THEN /\ Complete(InfoCatch)
               /\ UNCHANGED <<issued, status>>
          ELSE /\ status' = [c \in CallNames |->
                               IF \E k \in 1..Len(InfoCalls) : InfoCalls[k] = c
                               THEN Pending ELSE status[c]]
               /\ issued' = issued \o InfoCalls
               /\ pc' = "awaitAll"
               /\ UNCHANGED <<result, escaped>>
  /\ UNCHANGED <<fn, contractAddress, exposed, timer, race, validateLocals, idx, unhandled>>

\* lines 115-126: one of the three calls settles; when it is the last one
\* the allSettled promise fulfils and the function returns
InfoSettle ==
  /\ fn = "info" /\ pc = "awaitAll"
  /\ \E k \in 1..Len(InfoCalls), s \in {Fulfilled(v) : v \in Values} \cup {Rejected} :
       /\ status[InfoCalls[k]].st = "pending"
       /\ status' = [status EXCEPT ![InfoCalls[k]] = s]
       /\ unhandled' = (unhandled \/ (s.st = "rejected" /\ ~Handled(InfoCalls[k])))
       /\ IF \A j \in 1..Len(InfoCalls) : Settled(status'[InfoCalls[j]])
          THEN Complete(Returns(InfoResult(status')))
          ELSE UNCHANGED <<pc, result, escaped>>
  /\ UNCHANGED <<fn, contractAddress, exposed, bound, issued, timer, race,
                 validateLocals, idx>>

(* ------------------------ detectMintFunction -------------------------- *)

\* lines 140-147; a signature string is the sequence of its tokens
mintFunctions ==
  << <<"function ", "mint", "(", "uint256", ")">>,
     <<"function ", "mint", "(", "address", ",", "uint256", ")">>,
     <<"function ", "publicMint", "(", "uint256", ")">>,
     <<"function ", "publicMint", "(", "address", ",", "uint256", ")">>,
     <<"function ", "mintPublic", "(", "uint256", ")">>,
     <<"function ", "mintPublic", "(", "address", ",", "uint256", ")">> >>

\* String.prototype.split(sep)[0]: the part before the first separator
SplitHead(str, sep) ==
  IF \E k \in 1..Len(str) : str[k] = sep
  THEN SubSeq(str, 1, (CHOOSE k \in 1..Len(str) :
                         /\ str[k] = sep
                         /\ \A j \in 1..(k - 1) : str[j] /= sep) - 1)
  ELSE str

\* String.prototype.replace(pat, ''): the first occurrence is removed
RemoveFirst(str, pat) ==
  IF \E k \in 1..Len(str) : str[k] = pat
  THEN LET k == CHOOSE k \in 1..Len(str) :
                  /\ str[k] = pat
                  /\ \A j \in 1..(k - 1) : str[j] /= pat
       IN SubSeq(str, 1, k - 1) \o SubSeq(str, k + 1, Len(str))
  ELSE str

\* line 151
FunctionName(func) == RemoveFirst(SplitHead(func, "("), "function ")

\* the fragment the ABI parser makes of a signature string
ParseFragment(func) ==
  [name |-> <<func[2]>>, inputs |-> SubSeq(func, 4, Len(func) - 1)]

\* lines 153-157: the interface of the bound contract holds exactly the
\* fragments of the ABI handed to the constructor
Interface(abi) == {ParseFragment(abi[k]) : k \in 1..Len(abi)}

\* line 161: interface.getFunction(name): the fragment of that name, null
\* when there is none, an error when the name is ambiguous
getFunction(iface, key) ==
  LET matches == {f \in iface : f.name = key}
  IN IF matches = {} THEN "null"
     ELSE IF Cardinality(matches) = 1 THEN "fragment"
     ELSE "throw"

\* lines 172-175: catch (error)
DetectCatch == Returns(Null)

\* lines 149-175: one pass of the loop body, or the return after the loop;
\* the function has no await, the loop runs without interruption
DetectStep ==
  /\ fn = "detect" /\ pc \in {"start", "loop"}
  /\ IF idx > Len(mintFunctions)
     THEN /\ Complete(Returns(Null))
          /\ UNCHANGED <<idx, bound>>
     ELSE \E b \in {"ok", "threw"} :
            LET func == mintFunctions[idx]
                functionName == FunctionName(func)
                funcFragment == getFunction(Interface(<<func>>), functionName)
            IN /\ bound' = b
               /\ IF b = "threw"
                  THEN /\ Complete(DetectCatch)
                       /\ UNCHANGED idx
                  ELSE IF funcFragment = "fragment"
                  THEN /\ Complete(Returns(Signature(func)))
                       /\ UNCHANGED idx
                  ELSE /\ idx' = idx + 1
                       /\ pc' = "loop"
                       /\ UNCHANGED <<result, escaped>>
  /\ UNCHANGED <<fn, contractAddress, exposed, issued, status, timer, race,
                 validateLocals, unhandled>>

(* ------------------------- specification ------------------------------ *)

Init ==
  /\ fn \in Functions
  /\ contractAddress \in Addresses
  /\ exposed \in (IF fn = "detect" THEN SUBSET (1..Len(mintFunctions)) ELSE {{}})
  /\ pc = "start"
  /\ bound = "none"
  /\ issued = <<>>
  /\ status = [c \in CallNames |-> Idle]
  /\ timer = "unset"
  /\ race = "unset"
  /\ isERC721 = FALSE
  /\ isERC1155 = FALSE
  /\ hasBalanceOf = FALSE
  /\ hasOwnerOf = FALSE
  /\ idx = 1
  /\ result = NoResult
  /\ escaped = FALSE
  /\ unhandled = FALSE

Next ==
  \/ ValidateStart
  \/ GetCodeFulfil
  \/ GetCodeReject
  \/ TimerFire
  \/ Probe721Settle
  \/ Probe1155Settle
  \/ BalanceOfSettle
  \/ OwnerOfSettle
  \/ ScanSettle
  \/ InfoStart
  \/ InfoSettle
  \/ DetectStep

Spec == Init /\ [][Next]_vars

(* --------------------------- properties ------------------------------- *)

St(c) == status[c].st

FulfilledWith(c, v) == St(c) = "fulfilled" /\ status[c].val = v

NoCallIssued == issued = <<>> /\ \A c \in CallNames : St(c) = "idle"

OnlyFetchIssued == issued = <<"getCode">> /\ \A c \in CallNames \ {"getCode"} : St(c) = "idle"

ValidationResults ==
  {BadFormat, NotDeployed, NetworkFailure, ValidPlain, ValidTransfer, NotNFT, ValidationError}

\* C1: no exception propagates to the caller of any of the three functions,
\* whatever the remote calls and the contract binding do; a completed
\* invocation has returned a ValidationResult, a ContractInfo, or a
\* signature / null.
C1_NeverThrows ==
  /\ ~escaped
  /\ pc = "done" =>
       /\ fn = "validate" => result \in ValidationResults
       /\ fn = "info" => result.kind = "info"
       /\ fn = "detect" => result.kind \in {"signature", "null"}

C1_Witness ==
  /\ fn = "validate" /\ pc = "done" /\ bound = "threw"
  /\ result = ValidationError

\* C2: an address that fails format validation (the empty string included)
\* gives valid=false with a reason, and no remote call is ever issued.
C2_MalformedNoCall ==
  (fn = "validate" /\ ~isAddress(contractAddress)) =>
    /\ NoCallIssued
    /\ timer = "unset"
    /\ pc = "done" => (result.kind = "validation" /\ ~result.valid
                        /\ result.reason /= NoReason)

C2_Witness ==
  /\ fn = "validate" /\ pc = "done"
  /\ contractAddress.body = 40 /\ contractAddress.hex /\ ~contractAddress.checksumOk
  /\ result = BadFormat

\* C3: detectMintFunction returns the first of the six candidates, in list
\* order, that the contract at the address exposes, and null when it exposes
\* none of them.
FirstExposed ==
  IF exposed = {} THEN Null
  ELSE Signature(mintFunctions[CHOOSE k \in exposed : \A j \in exposed : k <= j])

C3_FirstExposedSignature ==
  (fn = "detect" /\ pc = "done" /\ bound = "ok") => result = FirstExposed

\* C4: step 2 is decided by whichever of the bytecode fetch and the timer
\* settles first; a rejected fetch or an earlier timer gives the
\* network-failure result with no further call, and a later settlement of
\* the loser changes nothing and raises nothing.
C4_RaceDecides ==
  /\ [](fn = "validate" =>
          /\ race \in {"fetchError", "timeout"} =>
               (pc = "done" /\ result = NetworkFailure /\ OnlyFetchIssued)
          /\ race = "fetch" => (St("getCode") = "fulfilled" /\ result /= NetworkFailure)
          /\ race = "fetchError" => St("getCode") = "rejected"
          /\ race = "timeout" => timer = "fired"
          /\ ~escaped /\ ~unhandled)
  /\ [][(fn = "validate" /\ pc = "done") =>
          (pc' = "done" /\ result' = result /\ issued' = issued)]_vars

C4_Witness ==
  /\ fn = "validate" /\ race = "timeout" /\ Settled(status["getCode"])
  /\ pc = "done" /\ result = NetworkFailure

C6_IndependentFields ==
  fn = "info" =>
    /\ (\E c \in {"name", "symbol", "totalSupply"} : St(c) /= "idle") =>
         (\A c \in {"name", "symbol", "totalSupply"} : St(c) /= "idle")
    /\ (pc = "done" /\ bound = "ok") =>
         /\ \A c \in {"name", "symbol", "totalSupply"} : Settled(status[c])
         /\ result.kind = "info"
         /\ result.name = (IF St("name") = "fulfilled" THEN status["name"].val ELSE Absent)
         /\ result.symbol = (IF St("symbol") = "fulfilled" THEN status["symbol"].val ELSE Absent)
         /\ result.totalSupply =
              (IF St("totalSupply") = "fulfilled" THEN status["totalSupply"].val ELSE Absent)
         /\ \A c \in {"name", "symbol", "totalSupply"} :
              St(c) = "fulfilled" => status[c].val /= Absent

C6_Witness ==
  /\ fn = "info" /\ pc = "done"
  /\ St("name") = "fulfilled" /\ St("symbol") = "rejected" /\ St("totalSupply") = "fulfilled"
  /\ result = ContractInfo(status["name"].val, Absent, status["totalSupply"].val)
  /\ status["name"].val /= status["totalSupply"].val

\* C7: for a deployed address, a true answer to the ERC721 probe or to the
\* ERC1155 probe gives valid=true with no reason; a failed probe counts as
\* false and does not stop the other probe's true answer.
C7_ProbeTrueIsValid ==
  (/\ fn = "validate"
   /\ Settled(status["supportsInterface1155"])
   /\ \/ FulfilledWith("supportsInterface721", TRUE)
      \/ FulfilledWith("supportsInterface1155", TRUE)) =>
    (pc = "done" /\ result = ValidPlain /\ ~escaped)

C7_Witness ==
  /\ fn = "validate" /\ pc = "done"
  /\ St("supportsInterface721") = "rejected"
  /\ FulfilledWith("supportsInterface1155", TRUE)
  /\ result = ValidPlain

\* C8: when neither probe reports support, a balanceOf or ownerOf call that
\* fulfils with any value gives valid=true; the failure of one of the two
\* does not stop the other's success.
C8_FallbackFulfilIsValid ==
  (/\ fn = "validate"
   /\ ~FulfilledWith("supportsInterface721", TRUE)
   /\ ~FulfilledWith("supportsInterface1155", TRUE)
   /\ Settled(status["ownerOf"])
   /\ (St("balanceOf") = "fulfilled" \/ St("ownerOf") = "fulfilled")) =>
    (pc = "done" /\ result.kind = "validation" /\ result.valid /\ ~escaped)

C8_Witness ==
  /\ fn = "validate" /\ pc = "done"
  /\ St("supportsInterface721") = "rejected"
  /\ FulfilledWith("supportsInterface1155", FALSE)
  /\ St("balanceOf") = "rejected"
  /\ FulfilledWith("ownerOf", 0)
  /\ result.valid

\* C9: when the step-2 fetch returns empty bytecode before the timeout the
\* result is valid=false, 'not deployed', and no probe, fallback call or
\* second fetch is issued.
C9_EmptyCodeNotDeployed ==
  (fn = "validate" /\ race = "fetch" /\ FulfilledWith("getCode", <<>>)) =>
    (pc = "done" /\ result = NotDeployed /\ OnlyFetchIssued)

C9_Witness ==
  /\ fn = "validate" /\ race = "fetch" /\ FulfilledWith("getCode", <<>>)
  /\ pc = "done" /\ timer = "fired"

\* C10: the remote calls of one validation are issued one at a time, each
\* after the previous one settled, in the order getCode, ERC721 probe,
\* ERC1155 probe, balanceOf, ownerOf, getCode for the scan; once a step has
\* decided the result no call of a later step is issued.
C10_SequentialShortCircuit ==
  fn = "validate" =>
    /\ Len(issued) <= Len(ValidateCalls)
    /\ issued = SubSeq(ValidateCalls, 1, Len(issued))
    /\ \A c \in CallNames : (St(c) /= "idle") <=> (\E k \in 1..Len(issued) : issued[k] = c)
    /\ \A k \in 1..(Len(issued) - 1) : Settled(status[issued[k]])
    /\ Cardinality({c \in CallNames : St(c) = "pending"}) <= 1
    /\ ~isAddress(contractAddress) => Len(issued) = 0
    /\ (\/ race \in {"fetchError", "timeout"}
        \/ (race = "fetch" /\ FulfilledWith("getCode", <<>>))) => Len(issued) <= 1
    /\ (\/ FulfilledWith("supportsInterface721", TRUE)
        \/ FulfilledWith("supportsInterface1155", TRUE)) => Len(issued) <= 3
    /\ (St("balanceOf") = "fulfilled" \/ St("ownerOf") = "fulfilled") => Len(issued) <= 5
    /\ pc = "done" => \A c \in CallNames \ {"getCode"} : St(c) /= "pending"

C10_Witness ==
  /\ fn = "validate" /\ pc = "done"
  /\ issued = ValidateCalls
  /\ result = NotNFT

====
